---- MODULE Spec2Model ----
(***************************************************************************)
(* Model of marner's folder-capture pipeline (src/marner/backup.py):       *)
(* collect_emails and the helpers it calls, as a sequential process whose  *)
(* position is pc, run against a mail server and a file system whose       *)
(* answers are chosen nondeterministically.                                *)
(***************************************************************************)
EXTENDS Integers, Sequences, FiniteSets, TLC

\* ------------------------------------------------------------------ bounds
MaxUid == 2      \* message identifiers of the folder are 1..MaxUid
MaxRuns == 2     \* calls of collect_emails in one behaviour
MaxNameLen == 3  \* length of the folder names given to make_file_name alone

\* ------------------------------------------------------------- basic data
Uids == 1..MaxUid

\* folder names, as sequences of characters
Folders == { <<"a", "/", "b">>, <<"a", ".", "b">> }

\* the three values of use_directory: none, an existing path, a missing path
UseDirectories == {"none", "user", "nodir"}

\* directories of the file system: the one mkdtemp makes, the caller's
\* existing one, and the path that does not exist
DirPaths == {"gen", "user", "nodir"}

RECURSIVE SeqsOver(_, _)
\* all sequences of distinct elements of S of length at most n
SeqsOver(S, n) ==
    IF n = 0 THEN { <<>> }
    ELSE LET shorter == SeqsOver(S, n - 1)
         IN shorter \cup { Append(s, x) : s \in shorter, x \in S }

Range(s) == { s[i] : i \in 1..Len(s) }

\* the UID SEARCH answers the server can give: any ordering of any subset
UidLists == { s \in SeqsOver(Uids, MaxUid) : Cardinality(Range(s)) = Len(s) }

\* data[0][1] of a successful UID FETCH of uid
RawMessage(uid) == <<"rfc822", uid>>

\* what mbox.add(email.message_from_bytes(eml)) writes for one message
MboxEntry(eml) == [envelope |-> "From MAILER-DAEMON", payload |-> eml]

\* ------------------------------------------------------------ file names
translate_slash(ch) == IF ch = "/" THEN "_" ELSE ch
translate(ch) == IF ch \in {"/", "*", ".", " "} THEN "_" ELSE ch

\* make_file_name: the file's name inside the directory
make_file_name(folder, extension) ==
    [i \in 1..Len(folder) |-> translate(folder[i])]
        \o (IF extension # "" THEN <<".", extension>> ELSE <<>>)

OtherName == <<"n", "o", "t", "e", "s">>

FileNames == { make_file_name(f, e) : f \in Folders, e \in {"mbox", "zip"} }
                 \cup { OtherName }

\* --------------------------------------------------------------- files
NoFile == [kind |-> "absent", msgs |-> <<>>, arcname |-> <<>>, whole |-> TRUE]
MboxFile(msgs) == [kind |-> "mbox", msgs |-> msgs, arcname |-> <<>>, whole |-> TRUE]
\* a zip archive with one member arcname holding the bytes of an mbox file
ZipFile(arcname, msgs, whole) ==
    [kind |-> "zip", msgs |-> msgs, arcname |-> arcname, whole |-> whole]
CallerFile == [kind |-> "data", msgs |-> <<>>, arcname |-> <<>>, whole |-> TRUE]

\* a message that is not in the folder, held by a file left by the caller
StaleEntry == MboxEntry(RawMessage(0))

EmptyDir == [n \in FileNames |-> NoFile]
NoDir == [exists |-> FALSE, files |-> EmptyDir]

\* one thing a call did: the operation, its argument, whether it succeeded
Event(op, arg, ok) == [op |-> op, arg |-> arg, ok |-> ok]

VARIABLES
    pc,                \* position in collect_emails
    run,               \* number of calls of collect_emails so far
    use_directory,     \* argument of the call
    folder,            \* argument of the call
    fs,                \* the directories and their files
    fs0,               \* fs as it was when collect_emails was called
    tempdir,           \* GetTempdir.tempdir
    remove_directory,  \* GetTempdir.remove_directory
    mbox,              \* the mailbox.mbox object
    conn,              \* state of the IMAP4_SSL connection
    uid_list,          \* get_folder_emails: uid_list
    idx,               \* get_folder_emails: position of the for loop
    eml,               \* the message yielded to collect_emails
    exc,               \* the exception in flight, or "none"
    inbox,             \* messages this call has appended to INBOX
    trace,             \* what this call has done so far, in order
    last_error,        \* what the previous call raised, and which part raised it
    named,             \* the last direct call of make_file_name and its result
    submit             \* state of the submit button of the dialog

vars == <<pc, run, use_directory, folder, fs, fs0, tempdir, remove_directory, mbox,
          conn, uid_list, idx, eml, exc, inbox, trace, last_error, named,
          submit>>

NoMbox == [state |-> "none", msgs |-> <<>>]

NoError == [component |-> "none", kind |-> "none"]
NotNamed == [folder |-> <<>>, extension |-> "", path |-> <<>>]

\* the part of the pipeline whose error collect_emails lets out: the logout
\* of the with statement if that raised, else the first stage that failed
RaisedBy ==
    LET failed(ops) == \E i \in 1..Len(trace) : trace[i].op \in ops /\ ~trace[i].ok
    IN IF failed({"logout"}) THEN "session close"
       ELSE IF failed({"connect", "login"}) THEN "session"
       ELSE IF failed({"select", "search", "fetch"}) THEN "folder"
       ELSE IF failed({"append"}) THEN "post"
       ELSE "local"

mbox_path == make_file_name(folder, "mbox")
zip_path == make_file_name(folder, "zip")

WriteFile(dir, name, file) ==
    [fs EXCEPT ![dir].files[name] = file]

Init ==
    /\ pc = "idle"
    /\ run = 0
    /\ use_directory = "none"
    /\ folder \in Folders
    /\ \E stale \in BOOLEAN :
         fs = [d \in DirPaths |->
                 IF d = "user"
                 THEN [exists |-> TRUE,
                       files |-> [n \in FileNames |->
                           IF n = OtherName THEN CallerFile
                           ELSE IF stale /\ n = make_file_name(folder, "mbox")
                                THEN MboxFile(<<StaleEntry>>)
                           ELSE IF stale /\ n = make_file_name(folder, "zip")
                                THEN ZipFile(n, <<StaleEntry>>, TRUE)
                           ELSE NoFile]]
                 ELSE NoDir]
    /\ fs0 = fs
    /\ tempdir = "unset"
    /\ remove_directory = FALSE
    /\ mbox = NoMbox
    /\ conn = "none"
    /\ uid_list = <<>>
    /\ idx = 0
    /\ eml = RawMessage(0)
    /\ exc = "none"
    /\ inbox = <<>>
    /\ trace = <<>>
    /\ last_error = NoError
    /\ named = NotNamed
    /\ submit = "enabled"

\* ------------------------------------------------------------------ steps

\* collect_emails(login, folder, use_directory) is entered
StartCall ==
    /\ pc \in {"idle", "done"}
    /\ run < MaxRuns
    /\ run' = run + 1
    /\ use_directory' \in UseDirectories
    /\ folder' \in Folders
    /\ pc' = "tempdir_init"
    /\ tempdir' = "unset"
    /\ remove_directory' = FALSE
    /\ mbox' = NoMbox
    /\ conn' = "none"
    /\ uid_list' = <<>>
    /\ idx' = 0
    /\ eml' = RawMessage(0)
    /\ exc' = "none"
    /\ trace' = <<>>
    /\ fs0' = fs
    /\ inbox' = <<>>
    /\ UNCHANGED <<fs, named, submit>>

\* collect_emails(login, folder, use_directory) is called
Call ==
    /\ StartCall
    /\ UNCHANGED last_error

\* collect_emails is called by a caller that keeps what the call before raised
CallAfter ==
    /\ StartCall
    /\ last_error' = IF pc = "done" /\ exc # "none"
                      THEN [component |-> RaisedBy, kind |-> exc]
                      ELSE NoError

Raise(kind, target) ==
    /\ exc' = kind
    /\ pc' = target

Log(op, arg, ok) == trace' = Append(trace, Event(op, arg, ok))

\* GetTempdir.__init__: does the scope own (and later remove) the directory
Owned_always(ud) == TRUE
Owned_never(ud) == FALSE
Owned(ud) == ud = "none"

\* pathlib.Path(use_directory).exists()
PathExists_any(dir) == TRUE
PathExists(dir) == fs[dir].exists

\* GetTempdir.__init__ and __enter__
GetTempdirInit ==
    /\ pc = "tempdir_init"
    /\ IF use_directory = "none"
       THEN /\ fs' = [fs EXCEPT !["gen"] = [exists |-> TRUE, files |-> EmptyDir]]
            /\ tempdir' = "gen"
            /\ remove_directory' = Owned(use_directory)
            /\ Log("mkdtemp", 0, TRUE)
            /\ pc' = "make_mbox"
            /\ UNCHANGED exc
       ELSE IF ~PathExists(use_directory)
       THEN /\ Raise("FileNotFoundError", "done")
            /\ UNCHANGED <<fs, tempdir, remove_directory, trace>>
       ELSE /\ tempdir' = use_directory
            /\ remove_directory' = Owned(use_directory)
            /\ pc' = "make_mbox"
            /\ UNCHANGED <<fs, exc, trace>>
    /\ UNCHANGED <<last_error, named, submit,
                   run, use_directory, folder, fs0, mbox, conn, uid_list, idx, eml,
                   inbox>>

\* path.unlink() of a file found to exist
Unlinked_kept(file) == file
Unlinked(file) == IF file.kind # "absent" THEN NoFile ELSE file

\* mailbox.mbox(path): opens the file there, creating an empty one if none
MboxOpened(file) == IF file.kind = "absent" THEN MboxFile(<<>>) ELSE file

\* collect_emails: the container's path is cleared and the mbox is opened
MakeMbox ==
    /\ pc = "make_mbox"
    /\ LET cleared == Unlinked(fs[tempdir].files[mbox_path])
       IN \E created \in BOOLEAN :
            IF created
            THEN /\ fs' = WriteFile(tempdir, mbox_path, MboxOpened(cleared))
                 /\ mbox' = [state |-> "open", msgs |-> MboxOpened(cleared).msgs]
                 /\ Log("mbox_create", 0, TRUE)
                 /\ pc' = "open_conn"
                 /\ UNCHANGED exc
            ELSE /\ fs' = WriteFile(tempdir, mbox_path, cleared)
                 /\ Raise("OSError", "tempdir_exit")
                 /\ UNCHANGED <<mbox, trace>>
    /\ UNCHANGED <<last_error, named, submit,
                   run, use_directory, folder, fs0, tempdir, remove_directory, conn,
                   uid_list, idx, eml, inbox>>

\* open_connection, entered by the with statement of collect_emails
OpenConnection ==
    /\ pc = "open_conn"
    /\ \E answer \in {"ok", "refused", "rejected"} :
         CASE answer = "ok" ->
                /\ conn' = "auth"
                /\ trace' = trace \o <<Event("connect", 0, TRUE), Event("login", 0, TRUE)>>
                /\ pc' = "select"
                /\ UNCHANGED exc
           [] answer = "refused" ->
                \* IMAP4_SSL() raises OSError: there is no connection
                /\ conn' = "none"
                /\ Log("connect", 0, FALSE)
                /\ Raise("ImapRuntimeError", "tempdir_exit")
           [] answer = "rejected" ->
                \* login() raises IMAP4.error: conn stays as it is
                /\ conn' = "connected"
                /\ trace' = trace \o <<Event("connect", 0, TRUE), Event("login", 0, FALSE)>>
                /\ Raise("ImapRuntimeError", "tempdir_exit")
    /\ UNCHANGED <<last_error, named, submit,
                   run, use_directory, folder, fs0, fs, tempdir, remove_directory,
                   mbox, uid_list, idx, eml, inbox>>

\* the answers of a protocol command: typ OK, typ NO, or imaplib raising
Answers == {"OK", "NO", "error"}

\* get_folder_emails: what a failed select, search or fetch raises
ErrorOf_swallowed(answer) == "none"
ErrorOf(answer) == IF answer = "NO" THEN "ImapRuntimeError" ELSE "IMAP4.error"

\* get_folder_emails: connection.select(folder)
Select ==
    /\ pc = "select"
    /\ \E answer \in Answers :
         /\ Log("select", 0, answer = "OK")
         /\ IF answer = "OK"
            THEN /\ conn' = "selected"
                 /\ pc' = "search"
                 /\ UNCHANGED exc
            ELSE /\ Raise(ErrorOf(answer), "finally")
                 /\ UNCHANGED conn
    /\ UNCHANGED <<last_error, named, submit,
                   run, use_directory, folder, fs0, fs, tempdir, remove_directory,
                   mbox, uid_list, idx, eml, inbox>>

\* get_folder_emails: connection.uid("search", None, "ALL")
Search ==
    /\ pc = "search"
    /\ \E answer \in Answers :
         /\ Log("search", 0, answer = "OK")
         /\ IF answer = "OK"
            THEN /\ uid_list' \in UidLists
                 /\ idx' = 1
                 /\ pc' = "fetch"
                 /\ UNCHANGED exc
            ELSE /\ Raise(ErrorOf(answer), "finally")
                 /\ UNCHANGED <<uid_list, idx>>
    /\ UNCHANGED <<last_error, named, submit,
                   run, use_directory, folder, fs0, fs, tempdir, remove_directory,
                   mbox, conn, eml, inbox>>

\* the uid the for loop of get_folder_emails takes at position i
NextUid_last(list, i) == list[Len(list) + 1 - i]
NextUid(list, i) == list[i]

\* get_folder_emails: one turn of the for loop up to the yield
Fetch ==
    /\ pc = "fetch"
    /\ idx <= Len(uid_list)
    /\ \E answer \in Answers :
         /\ Log("fetch", NextUid(uid_list, idx), answer = "OK")
         /\ IF answer = "OK"
            THEN /\ eml' = RawMessage(NextUid(uid_list, idx))
                 /\ pc' = "add"
                 /\ UNCHANGED exc
            ELSE /\ Raise(ErrorOf(answer), "finally")
                 /\ UNCHANGED eml
    /\ UNCHANGED <<last_error, named, submit,
                   run, use_directory, folder, fs0, fs, tempdir, remove_directory,
                   mbox, conn, uid_list, idx, inbox>>

\* get_folder_emails: uid_list is exhausted, the for loop of collect_emails ends
LoopEnd ==
    /\ pc = "fetch"
    /\ idx > Len(uid_list)
    /\ pc' = "finally"
    /\ UNCHANGED <<last_error, named, submit,
                   run, use_directory, folder, fs0, fs, tempdir, remove_directory,
                   mbox, conn, uid_list, idx, eml, exc, inbox, trace>>

\* mbox.add: the message is appended to the file, or the file is cut back
AddEmail ==
    /\ pc = "add"
    /\ \E written \in BOOLEAN :
         IF written
         THEN /\ mbox' = [mbox EXCEPT !.msgs = Append(@, MboxEntry(eml))]
              /\ fs' = WriteFile(tempdir, mbox_path,
                                 MboxFile(Append(fs[tempdir].files[mbox_path].msgs,
                                                 MboxEntry(eml))))
              /\ Log("add", eml[2], TRUE)
              /\ idx' = idx + 1
              /\ pc' = "fetch"
              /\ UNCHANGED exc
         ELSE /\ Raise("OSError", "finally")
              /\ UNCHANGED <<mbox, fs, trace, idx>>
    /\ UNCHANGED <<last_error, named, submit,
                   run, use_directory, folder, fs0, tempdir, remove_directory, conn,
                   uid_list, eml, inbox>>

\* mbox.close()
Closed_skipped(m) == m
Closed(m) == [m EXCEPT !.state = "closed"]

\* collect_emails: the finally clause of the try around the for loop
Finally ==
    /\ pc = "finally"
    /\ mbox' = Closed(mbox)
    /\ Log("mbox_close", 0, TRUE)
    /\ pc' = IF exc = "none" THEN "zip" ELSE "conn_exit"
    /\ UNCHANGED <<last_error, named, submit,
                   run, use_directory, folder, fs0, fs, tempdir, remove_directory,
                   conn, uid_list, idx, eml, exc, inbox>>

\* mbox_zip.write(mbox_path, ...): the file the archive's entry is read from
ZipSource_before(dir, path) == fs0[dir].files[path]
ZipSource(dir, path) == fs[dir].files[path]

\* collect_emails: the archive's path is cleared and the zip file is written
Compress ==
    /\ pc = "zip"
    /\ LET cleared == Unlinked(fs[tempdir].files[zip_path])
           source == ZipSource(tempdir, mbox_path)
       IN IF cleared.kind # "absent"
          THEN \* ZipFile(mode="x") on an existing file
               /\ Raise("FileExistsError", "conn_exit")
               /\ UNCHANGED <<fs, trace>>
          ELSE \E outcome \in {"ok", "create_fails", "write_fails"} :
                 CASE outcome = "ok" ->
                        /\ fs' = WriteFile(tempdir, zip_path,
                                           ZipFile(mbox_path, source.msgs, TRUE))
                        /\ Log("zip_create", 0, TRUE)
                        /\ pc' = "place"
                        /\ UNCHANGED exc
                   [] outcome = "create_fails" ->
                        /\ fs' = WriteFile(tempdir, zip_path, cleared)
                        /\ Raise("OSError", "conn_exit")
                        /\ UNCHANGED trace
                   [] outcome = "write_fails" ->
                        /\ fs' = WriteFile(tempdir, zip_path,
                                           ZipFile(<<>>, <<>>, FALSE))
                        /\ Log("zip_create", 0, FALSE)
                        /\ Raise("OSError", "conn_exit")
    /\ UNCHANGED <<last_error, named, submit,
                   run, use_directory, folder, fs0, tempdir, remove_directory, mbox,
                   conn, uid_list, idx, eml, inbox>>

\* the EmailMessage place_message builds
BackupMessage(attachment, filename) ==
    [subject |-> "Back up email folder", attachment |-> attachment,
     filename |-> filename]

\* place_message: what a failed append raises (typ NO, or imaplib raising)
PostError_ignored(answer) == IF answer = "NO" THEN "none" ELSE "IMAP4.error"
PostError(answer) == IF answer = "NO" THEN "RuntimeError" ELSE "IMAP4.error"

\* place_message
PlaceMessage ==
    /\ pc = "place"
    /\ pc' = "conn_exit"
    /\ \E answer \in Answers :
         /\ Log("append", 0, answer = "OK")
         /\ IF answer = "OK"
            THEN /\ inbox' = Append(inbox,
                       BackupMessage(fs[tempdir].files[zip_path], zip_path))
                 /\ UNCHANGED exc
            ELSE /\ exc' = PostError(answer)
                 /\ UNCHANGED inbox
    /\ UNCHANGED <<last_error, named, submit,
                   run, use_directory, folder, fs0, fs, tempdir, remove_directory,
                   mbox, conn, uid_list, idx, eml>>

\* the with statement around the connection is left: IMAP4.__exit__ calls
\* logout(), which shuts the connection down once LOGOUT is answered and
\* raises IMAP4.abort, leaving the socket as it is, when the link is dead
ConnExit ==
    /\ pc = "conn_exit"
    /\ \E answered \in BOOLEAN :
         /\ Log("logout", 0, answered)
         /\ IF answered
            THEN /\ conn' = "closed"
                 /\ UNCHANGED exc
            ELSE /\ conn' = "logout"
                 /\ exc' = "IMAP4.abort"
    /\ pc' = "tempdir_exit"
    /\ UNCHANGED <<last_error, named, submit,
                   run, use_directory, folder, fs0, fs, tempdir, remove_directory,
                   mbox, uid_list, idx, eml, inbox>>

\* GetTempdir.__exit__
GetTempdirExit ==
    /\ pc = "tempdir_exit"
    /\ IF remove_directory
       THEN /\ fs' = [fs EXCEPT ![tempdir] = NoDir]
            /\ Log("rmdir", 0, TRUE)
       ELSE UNCHANGED <<fs, trace>>
    /\ pc' = "done"
    /\ UNCHANGED <<last_error, named, submit,
                   run, use_directory, folder, fs0, tempdir, remove_directory, mbox,
                   conn, uid_list, idx, eml, exc, inbox>>

Next ==
    \/ Call
    \/ GetTempdirInit
    \/ MakeMbox
    \/ OpenConnection
    \/ Select
    \/ Search
    \/ Fetch
    \/ LoopEnd
    \/ AddEmail
    \/ Finally
    \/ Compress
    \/ PlaceMessage
    \/ ConnExit
    \/ GetTempdirExit

Spec == Init /\ [][Next]_vars

\* --------------------------- the standalone pipeline, src/backup/__init__.py
\* GetTempdir, make_file_name and the statements of collect_emails around the
\* mbox and the zip file are the same code there; the connection is opened
\* inside get_folder_emails and again inside place_message.

\* open_connection as called by get_folder_emails, when its first next() runs
StandaloneOpenConnection ==
    /\ pc = "open_conn"
    /\ \E answer \in {"ok", "refused", "greeting", "rejected"} :
         CASE answer = "ok" ->
                /\ conn' = "auth"
                /\ trace' = trace \o <<Event("connect", 0, TRUE), Event("login", 0, TRUE)>>
                /\ pc' = "select"
                /\ UNCHANGED exc
           [] answer = "refused" ->
                \* IMAP4_SSL() raises OSError, which nothing catches
                /\ conn' = "none"
                /\ Log("connect", 0, FALSE)
                /\ Raise("OSError", "tempdir_exit")
           [] answer = "greeting" ->
                \* IMAP4_SSL() raises IMAP4.error: ImapRuntimeError is raised,
                \* caught by the generator, and the generator just ends
                /\ conn' = "none"
                /\ Log("connect", 0, FALSE)
                /\ pc' = "close_mbox"
                /\ UNCHANGED exc
           [] answer = "rejected" ->
                \* login() raises IMAP4.error, which nothing catches
                /\ conn' = "connected"
                /\ trace' = trace \o <<Event("connect", 0, TRUE), Event("login", 0, FALSE)>>
                /\ Raise("IMAP4.error", "tempdir_exit")
    /\ UNCHANGED <<last_error, named, submit,
                   run, use_directory, folder, fs0, fs, tempdir, remove_directory,
                   mbox, uid_list, idx, eml, inbox>>

\* get_folder_emails: what its except clauses do with an error raised inside
Caught(kind) == IF kind = "ImapRuntimeError" THEN "none" ELSE kind

\* get_folder_emails is left: its with statement logs out, and its except
\* clause for ImapRuntimeError logs the error and ends the generator
StandaloneGeneratorEnd ==
    /\ pc = "finally"
    /\ IF exc = "OSError"
       THEN \* mbox.add raised in collect_emails: the generator is abandoned
            \* where it yielded, and is finalised whenever it is collected
            /\ \E finalised \in BOOLEAN :
                 /\ conn' = IF finalised THEN "closed" ELSE conn
                 /\ trace' = IF finalised
                             THEN Append(trace, Event("logout", 0, TRUE))
                             ELSE trace
            /\ pc' = "tempdir_exit"
            /\ UNCHANGED exc
       ELSE \E answered \in BOOLEAN :
              /\ Log("logout", 0, answered)
              /\ IF answered
                 THEN /\ conn' = "closed"
                      /\ exc' = Caught(exc)
                      /\ pc' = IF Caught(exc) = "none" THEN "close_mbox"
                                                        ELSE "tempdir_exit"
                 ELSE /\ conn' = "logout"
                      /\ Raise("IMAP4.abort", "tempdir_exit")
    /\ UNCHANGED <<last_error, named, submit,
                   run, use_directory, folder, fs0, fs, tempdir, remove_directory,
                   mbox, uid_list, idx, eml, inbox>>

\* collect_emails: mbox.close() after the for loop
StandaloneCloseMbox ==
    /\ pc = "close_mbox"
    /\ mbox' = Closed(mbox)
    /\ Log("mbox_close", 0, TRUE)
    /\ pc' = "zip"
    /\ UNCHANGED <<last_error, named, submit,
                   run, use_directory, folder, fs0, fs, tempdir, remove_directory,
                   conn, uid_list, idx, eml, exc, inbox>>

\* place_message: builds the message, opens its own connection and appends
StandalonePlaceMessage ==
    /\ pc = "place"
    /\ \E opened \in {"ok", "refused", "greeting", "rejected"}, answer \in Answers :
         CASE opened = "ok" ->
                /\ conn' = "auth"
                /\ trace' = trace \o <<Event("connect", 0, TRUE),
                                       Event("login", 0, TRUE),
                                       Event("append", 0, answer = "OK")>>
                /\ pc' = "conn_exit"
                /\ IF answer = "OK"
                   THEN /\ inbox' = Append(inbox,
                              BackupMessage(fs[tempdir].files[zip_path], zip_path))
                        /\ UNCHANGED exc
                   ELSE /\ exc' = PostError(answer)
                        /\ UNCHANGED inbox
           [] opened = "refused" ->
                /\ conn' = "none"
                /\ Log("connect", 0, FALSE)
                /\ Raise("OSError", "tempdir_exit")
                /\ UNCHANGED inbox
           [] opened = "greeting" ->
                /\ conn' = "none"
                /\ Log("connect", 0, FALSE)
                /\ Raise("ImapRuntimeError", "tempdir_exit")
                /\ UNCHANGED inbox
           [] opened = "rejected" ->
                /\ conn' = "connected"
                /\ trace' = trace \o <<Event("connect", 0, TRUE), Event("login", 0, FALSE)>>
                /\ Raise("IMAP4.error", "tempdir_exit")
                /\ UNCHANGED inbox
    /\ UNCHANGED <<last_error, named, submit,
                   run, use_directory, folder, fs0, fs, tempdir, remove_directory,
                   mbox, uid_list, idx, eml>>

\* the zip statements raised (no connection is open then), or the with
\* statement of place_message is left and logs out
StandaloneConnExit ==
    /\ pc = "conn_exit"
    /\ IF conn = "auth"
       THEN \E answered \in BOOLEAN :
              /\ Log("logout", 0, answered)
              /\ IF answered
                 THEN /\ conn' = "closed"
                      /\ UNCHANGED exc
                 ELSE /\ conn' = "logout"
                      /\ exc' = "IMAP4.abort"
       ELSE UNCHANGED <<conn, exc, trace>>
    /\ pc' = "tempdir_exit"
    /\ UNCHANGED <<last_error, named, submit,
                   run, use_directory, folder, fs0, fs, tempdir, remove_directory,
                   mbox, uid_list, idx, eml, inbox>>

\* the pipeline of src/marner/backup.py under a caller that compares the
\* errors of consecutive calls
ErrorsNext ==
    \/ CallAfter
    \/ GetTempdirInit
    \/ MakeMbox
    \/ OpenConnection
    \/ Select
    \/ Search
    \/ Fetch
    \/ LoopEnd
    \/ AddEmail
    \/ Finally
    \/ Compress
    \/ PlaceMessage
    \/ ConnExit
    \/ GetTempdirExit

ErrorsSpec == Init /\ [][ErrorsNext]_vars

StandaloneNext ==
    \/ Call
    \/ GetTempdirInit
    \/ MakeMbox
    \/ StandaloneOpenConnection
    \/ Select
    \/ Search
    \/ Fetch
    \/ LoopEnd
    \/ AddEmail
    \/ StandaloneGeneratorEnd
    \/ StandaloneCloseMbox
    \/ Compress
    \/ StandalonePlaceMessage
    \/ StandaloneConnExit
    \/ GetTempdirExit

StandaloneSpec == Init /\ [][StandaloneNext]_vars

\* ------------------------------------ the dialog, src/marner/core.py
\* App.disable_submit(disable): the state the submit button is put in
disable_submit(disable) == IF disable THEN "disabled" ELSE "enabled"

\* _do_backup up to its call of collect_emails(server_login, folder); the
\* callback runs when the submit button, not disabled, is pressed
DoBackupBegin ==
    /\ pc = "idle"
    /\ submit = "enabled"
    /\ run < MaxRuns
    /\ submit' = disable_submit(TRUE)
    /\ run' = run + 1
    /\ use_directory' = "none"
    /\ folder' \in Folders
    /\ pc' = "tempdir_init"
    /\ tempdir' = "unset"
    /\ remove_directory' = FALSE
    /\ mbox' = NoMbox
    /\ conn' = "none"
    /\ uid_list' = <<>>
    /\ idx' = 0
    /\ eml' = RawMessage(0)
    /\ exc' = "none"
    /\ trace' = <<>>
    /\ fs0' = fs
    /\ inbox' = <<>>
    /\ UNCHANGED <<fs, last_error, named>>

\* _do_backup: the exceptions its except clause catches
Handled(kind) == kind = "ImapRuntimeError"

\* _do_backup from the return of collect_emails: an exception that is not
\* handled leaves the callback before disable_submit(False)
DoBackupEnd ==
    /\ pc = "done"
    /\ submit' = IF exc = "none" \/ Handled(exc)
                 THEN disable_submit(FALSE)
                 ELSE submit
    /\ pc' = "idle"
    /\ UNCHANGED <<run, use_directory, folder, fs, fs0, tempdir,
                   remove_directory, mbox, conn, uid_list, idx, eml, exc,
                   inbox, trace, last_error, named>>

GuiNext ==
    \/ DoBackupBegin
    \/ GetTempdirInit
    \/ MakeMbox
    \/ OpenConnection
    \/ Select
    \/ Search
    \/ Fetch
    \/ LoopEnd
    \/ AddEmail
    \/ Finally
    \/ Compress
    \/ PlaceMessage
    \/ ConnExit
    \/ GetTempdirExit
    \/ DoBackupEnd

GuiSpec == Init /\ [][GuiNext]_vars

\* ------------------------------------------------------------ properties

\* collect_emails has returned or raised
Exited == pc = "done"

\* the events of one operation, in order
Ops(op) == SelectSeq(trace, LAMBDA e : e.op = op)

Did(op) == \E i \in 1..Len(trace) : trace[i].op = op

\* position of the first event of an operation in the trace, 0 if none
FirstOf(op) ==
    IF Did(op) THEN CHOOSE i \in 1..Len(trace) :
                        /\ trace[i].op = op
                        /\ \A j \in 1..(i - 1) : trace[j].op # op
    ELSE 0

\* the container entries of the first n enumerated identifiers
Expected(n) == [i \in 1..n |-> MboxEntry(RawMessage(uid_list[i]))]

\* the fetch of the K-th enumerated identifier was the one that failed
FetchFailedAt(K) ==
    /\ Len(Ops("fetch")) = K
    /\ ~Ops("fetch")[K].ok

\* C1: if the fetch of the K-th of N identifiers fails, then at exit the
\* container holds exactly the first K-1 messages (on disk too, where the
\* directory is the caller's), it has been closed, and an error is raised.
C1_FailFast ==
    \A K \in 1..MaxUid :
        (Exited /\ FetchFailedAt(K)) =>
            /\ K <= Len(uid_list)
            /\ mbox.msgs = Expected(K - 1)
            /\ mbox.state = "closed"
            /\ exc # "none"
            /\ (use_directory = "user" =>
                    fs["user"].files[mbox_path] = MboxFile(Expected(K - 1)))

C1_Witness ==
    /\ Exited
    /\ Len(uid_list) = 2
    /\ FetchFailedAt(2)
    /\ use_directory = "user"
    /\ fs0["user"].files[mbox_path].kind = "mbox"

\* C2: with no caller-supplied directory, once collect_emails has returned
\* or raised, the generated directory and every file in it are gone.
C2_GeneratedDirRemoved ==
    (Exited /\ use_directory = "none") =>
        /\ ~fs["gen"].exists
        /\ \A n \in FileNames : fs["gen"].files[n].kind = "absent"

C2_Witness ==
    /\ Exited
    /\ use_directory = "none"
    /\ Did("mbox_create")
    /\ Did("zip_create")
    /\ Did("rmdir")

\* C3: whenever the transport connect succeeded, the connection has been
\* closed by the time collect_emails returns or raises.
C3_SessionClosed ==
    (Exited /\ \E i \in 1..Len(trace) : trace[i].op = "connect" /\ trace[i].ok)
        => conn = "closed"

\* session open (connect or login) failed in this call
SessionOpenFailed ==
    \E i \in 1..Len(trace) : trace[i].op \in {"connect", "login"} /\ ~trace[i].ok

\* C4: when session open fails, the authentication error is raised before
\* any temporary file was created, and a generated directory is removed.
C4_AuthErrorBeforeFiles ==
    (Exited /\ SessionOpenFailed) =>
        /\ exc = "ImapRuntimeError"
        /\ ~Did("mbox_create")
        /\ ~Did("zip_create")
        /\ (use_directory = "none" => ~fs["gen"].exists)

\* C5: on every exit of collect_emails after the container was opened, the
\* container has been closed.
C5_ContainerClosed ==
    (Exited /\ Did("mbox_create")) => mbox.state = "closed"

\* C6: the append to INBOX is issued at most once, only after session open,
\* folder read, container build and compression all succeeded, and a normal
\* return means exactly one append was issued and accepted.
C6_AppendOnce ==
    /\ Len(Ops("append")) <= 1
    /\ Did("append") =>
          /\ \E i \in 1..Len(trace) : trace[i].op = "login" /\ trace[i].ok
          /\ \A i \in 1..Len(trace) :
                trace[i].op \in {"select", "search", "fetch"} => trace[i].ok
          /\ Len(Ops("fetch")) = Len(uid_list)
          /\ Len(Ops("add")) = Len(uid_list)
          /\ mbox.state = "closed"
          /\ Len(Ops("zip_create")) = 1 /\ Ops("zip_create")[1].ok
          /\ FirstOf("zip_create") < FirstOf("append")
    /\ (Exited /\ exc = "none") =>
          /\ Len(Ops("append")) = 1
          /\ Ops("append")[1].ok
          /\ inbox =
                <<BackupMessage(ZipFile(mbox_path, mbox.msgs, TRUE), zip_path)>>

C6_Witness ==
    /\ Exited
    /\ exc = "none"
    /\ Len(uid_list) = 2
    /\ Len(inbox) = 1

\* C7: each identifier is fetched once, in enumeration order; the container
\* is at every moment a prefix of the messages in enumeration order, and
\* after a successful build it is the whole sequence.
C7_OrderPreserved ==
    /\ Len(Ops("fetch")) <= Len(uid_list)
    /\ \A i \in 1..Len(Ops("fetch")) : Ops("fetch")[i].arg = uid_list[i]
    /\ Len(mbox.msgs) <= Len(uid_list)
    /\ mbox.msgs = Expected(Len(mbox.msgs))
    /\ pc \in {"open_conn", "select", "search", "fetch", "add", "finally"} =>
          fs[tempdir].files[mbox_path] = MboxFile(mbox.msgs)
    /\ pc \in {"zip", "place"} =>
          /\ mbox.msgs = Expected(Len(uid_list))
          /\ fs[tempdir].files[mbox_path] = MboxFile(Expected(Len(uid_list)))

C7_Witness ==
    /\ pc = "zip"
    /\ uid_list = <<2, 1>>
    /\ Len(mbox.msgs) = 2
    /\ fs0[tempdir].files[mbox_path].kind = "mbox"

\* C8: a caller-supplied directory that does not exist makes collect_emails
\* raise the missing-directory error before any connection is attempted and
\* without creating any directory or file.
C8_MissingDirectory ==
    (Exited /\ use_directory = "nodir") =>
        /\ exc = "FileNotFoundError"
        /\ ~Did("connect")
        /\ trace = <<>>
        /\ fs = fs0
        /\ ~fs["nodir"].exists

C8_Witness ==
    /\ Exited
    /\ use_directory = "nodir"
    /\ exc = "FileNotFoundError"

\* C9: a caller-supplied directory is never removed, files in it other than
\* the run's container and archive are unchanged, and the run's container
\* and archive are still there at exit.
C9_CallerDirNotOwned ==
    (pc # "idle" /\ use_directory = "user") =>
        /\ fs["user"].exists
        /\ \A n \in FileNames \ {mbox_path, zip_path} :
              fs["user"].files[n] = fs0["user"].files[n]
        /\ Exited =>
              /\ Did("mbox_create") => fs["user"].files[mbox_path].kind = "mbox"
              /\ Did("zip_create") => fs["user"].files[zip_path].kind = "zip"

C9_Witness ==
    /\ Exited
    /\ use_directory = "user"
    /\ Did("zip_create")
    /\ exc # "none"
    /\ fs["user"].files[OtherName] = CallerFile

\* C10: after a successful run into a caller-supplied directory, also one
\* that follows earlier runs, the directory holds exactly one container and
\* one archive for the folder, both holding the messages of this run only.
C10_IdempotentPaths ==
    (Exited /\ exc = "none" /\ use_directory = "user") =>
        /\ fs["user"].files[mbox_path] = MboxFile(Expected(Len(uid_list)))
        /\ fs["user"].files[zip_path] =
              ZipFile(mbox_path, Expected(Len(uid_list)), TRUE)
        /\ {n \in FileNames : fs["user"].files[n].kind = "mbox"} = {mbox_path}
        /\ {n \in FileNames : fs["user"].files[n].kind = "zip"} = {zip_path}

C10_Witness ==
    /\ Exited
    /\ exc = "none"
    /\ use_directory = "user"
    /\ run = 2
    /\ fs0["user"].files[mbox_path].kind = "mbox"
    /\ fs0["user"].files[zip_path].kind = "zip"
    /\ fs0["user"].files[mbox_path].msgs # <<>>
    /\ StaleEntry \notin Range(fs0["user"].files[mbox_path].msgs)
    /\ fs0["user"].files[mbox_path] # fs["user"].files[mbox_path]

\* C11: the archive is created only once the container is closed; when it
\* has been written its one entry is the whole container (all N messages)
\* under the container's file name, and the container file is as it was.
C11_ArchiveAfterClose ==
    /\ pc = "zip" => mbox.state = "closed"
    /\ Did("zip_create") =>
          /\ mbox.state = "closed"
          /\ Did("mbox_close")
          /\ FirstOf("mbox_close") < FirstOf("zip_create")
    /\ pc = "place" =>
          /\ fs[tempdir].files[zip_path].kind = "zip"
          /\ fs[tempdir].files[zip_path].whole
          /\ fs[tempdir].files[zip_path].arcname = mbox_path
          /\ fs[tempdir].files[zip_path].msgs = Expected(Len(uid_list))
          /\ fs[tempdir].files[mbox_path] = MboxFile(Expected(Len(uid_list)))

C11_Witness ==
    /\ pc = "place"
    /\ Len(uid_list) = 2
    /\ fs0[tempdir].files[zip_path].kind = "zip"
    /\ fs0[tempdir].files[mbox_path].msgs # fs[tempdir].files[mbox_path].msgs

\* the parts of the pipeline an error is said to name
Components == {"session", "folder", "post", "local"}

\* C12: the kind of the error tells the caller which part failed (session
\* open, folder reading, INBOX append, local files), so two calls that raise
\* the same kind failed in the same part.
C12_KindsDistinguish ==
    (/\ Exited
     /\ exc # "none"
     /\ last_error.kind = exc
     /\ RaisedBy \in Components
     /\ last_error.component \in Components)
        => last_error.component = RaisedBy

\* C13: once a stage has failed with an error, that error is the one
\* collect_emails raises: no cleanup step replaces it with its own failure.
C13_OriginalErrorKept ==
    [][(exc # "none" /\ pc # "done") => exc' = exc]_vars

\* the search was answered OK with no identifiers
SearchedEmpty ==
    /\ \E i \in 1..Len(trace) : trace[i].op = "search" /\ trace[i].ok
    /\ uid_list = <<>>

\* C14: when the folder enumerates no identifiers, no fetch is issued, the
\* container is created and closed empty, the archive has the empty
\* container as its one entry, one message is appended to INBOX and, the
\* archive being written and every command answered OK, collect_emails
\* returns normally; no folder error is raised.
C14_EmptyFolder ==
    SearchedEmpty =>
        /\ ~Did("fetch")
        /\ ~Did("add")
        /\ mbox.msgs = <<>>
        /\ pc \notin {"fetch", "finally"} => mbox.state = "closed"
        /\ pc = "zip" =>
              /\ exc = "none"
              /\ fs[tempdir].files[mbox_path] = MboxFile(<<>>)
        /\ pc = "place" =>
              /\ exc = "none"
              /\ fs[tempdir].files[zip_path] = ZipFile(mbox_path, <<>>, TRUE)
        /\ Len(Ops("append")) <= 1
        /\ Exited =>
              /\ exc # "ImapRuntimeError"
              /\ (Did("zip_create") /\ \A i \in 1..Len(trace) : trace[i].ok) =>
                    /\ exc = "none"
                    /\ Len(Ops("zip_create")) = 1
                    /\ Len(Ops("append")) = 1
                    /\ inbox[Len(inbox)] =
                          BackupMessage(ZipFile(mbox_path, <<>>, TRUE), zip_path)

C14_Witness ==
    /\ SearchedEmpty
    /\ Exited
    /\ exc = "none"
    /\ Did("append")
    /\ fs0[tempdir].files[mbox_path].msgs # <<>>

\* ------------------------------------------- make_file_name on its own

\* characters of folder names: the four that are replaced, and two others
NameChars == {"/", "*", ".", " ", "a", "_"}

TestingOne == <<"t", "e", "s", "t", "i", "n", "g", "/", "o", "n", "e">>

NameInputs == SeqsOver(NameChars, MaxNameLen) \cup {TestingOne}

\* the extension argument: the two collect_emails uses, and none
Extensions == {"mbox", "zip", ""}

NamesInit ==
    /\ pc = "idle"
    /\ run = 0
    /\ use_directory = "none"
    /\ folder \in NameInputs
    /\ fs = [d \in DirPaths |-> NoDir]
    /\ fs0 = fs
    /\ tempdir = "unset"
    /\ remove_directory = FALSE
    /\ mbox = NoMbox
    /\ conn = "none"
    /\ uid_list = <<>>
    /\ idx = 0
    /\ eml = RawMessage(0)
    /\ exc = "none"
    /\ inbox = <<>>
    /\ trace = <<>>
    /\ last_error = NoError
    /\ named = NotNamed
    /\ submit = "enabled"

\* make_file_name(directory, folder, extension) is called
MakeFileName ==
    /\ named = NotNamed
    /\ \E extension \in Extensions :
         named' = [folder |-> folder, extension |-> extension,
                   path |-> make_file_name(folder, extension)]
    /\ UNCHANGED <<pc, run, use_directory, folder, fs, fs0, tempdir,
                   remove_directory, mbox, conn, uid_list, idx, eml, exc,
                   inbox, trace, last_error, submit>>

NamesNext == MakeFileName

NamesSpec == NamesInit /\ [][NamesNext]_vars

\* C15: the name make_file_name gives has the folder name's length, with
\* '/', '*', '.' and space each replaced by '_' and every other character
\* kept, followed by '.' and the extension; container and archive names of
\* one folder differ only in the extension; "testing/one" gives
\* "testing_one".
C15_Sanitized ==
    named # NotNamed =>
        LET f == named.folder
            p == named.path
            n == Len(f)
            asMbox == make_file_name(f, "mbox")
            asZip == make_file_name(f, "zip")
        IN /\ Len(p) = n + (IF named.extension = "" THEN 0 ELSE 2)
           /\ \A i \in 1..n :
                 /\ f[i] = "/" => p[i] = "_"
                 /\ f[i] = "*" => p[i] = "_"
                 /\ f[i] = "." => p[i] = "_"
                 /\ f[i] = " " => p[i] = "_"
                 /\ f[i] \in {"a", "_", "t", "e", "s", "i", "n", "g", "o"} =>
                       p[i] = f[i]
           /\ named.extension # "" =>
                 /\ p[n + 1] = "."
                 /\ p[n + 2] = named.extension
           /\ Len(asMbox) = Len(asZip)
           /\ \A i \in 1..Len(asMbox) : i # n + 2 => asMbox[i] = asZip[i]
           /\ f = TestingOne =>
                 SubSeq(p, 1, n) =
                    <<"t", "e", "s", "t", "i", "n", "g", "_", "o", "n", "e">>

C15_Witness ==
    /\ named.folder = TestingOne
    /\ named.extension = "zip"
    /\ named.path = <<"t", "e", "s", "t", "i", "n", "g", "_", "o", "n", "e",
                      ".", "zip">>

\* the first event of one operation comes before the first of another
Before(op1, op2) == Did(op1) /\ FirstOf(op1) < FirstOf(op2)

\* C16: the stages come in the order session open, container build,
\* container close, compress, post (so the container is not created before
\* the session is open), and once a stage has failed no further fetch,
\* container append, archive creation or INBOX append is performed.
C16_LinearStages ==
    /\ Did("mbox_create") =>
          /\ Before("login", "mbox_create")
          /\ Ops("login")[1].ok
    /\ Did("add") => Before("mbox_create", "add")
    /\ Did("zip_create") => Before("mbox_close", "zip_create")
    /\ Did("append") => Before("zip_create", "append")
    /\ \A i, j \in 1..Len(trace) :
          (i < j /\ ~trace[i].ok) =>
              trace[j].op \notin {"fetch", "add", "zip_create", "append"}
    /\ exc # "none" => pc \notin {"fetch", "add", "zip", "place"}

\* a session was opened in this call: the login was accepted
SessionOpened == \E i \in 1..Len(trace) : trace[i].op = "login" /\ trace[i].ok

\* C17: in a call in which a session was opened, the session is closed by
\* the time the temporary-directory scope is released, and no select,
\* search, fetch or append is issued after the session is closed or after
\* the directory is released.
C17_NestedRelease ==
    SessionOpened =>
        /\ pc \in {"tempdir_exit", "done"} =>
              /\ conn = "closed"
              /\ Did("logout")
        /\ Did("rmdir") => Before("logout", "rmdir")
        /\ \A i, j \in 1..Len(trace) :
              (i < j /\ trace[i].op \in {"logout", "rmdir"}) =>
                  trace[j].op \notin {"select", "search", "fetch", "append"}

\* a select, search or fetch of this call failed
FolderReadFailed ==
    \E i \in 1..Len(trace) :
        trace[i].op \in {"select", "search", "fetch"} /\ ~trace[i].ok

\* C18: in the standalone pipeline too, a call in which the folder's select,
\* its search or the fetch of a message fails creates no archive and appends
\* no backup message to INBOX.
C18_StandaloneFailFast ==
    FolderReadFailed => (~Did("zip_create") /\ ~Did("append"))

\* the container and the archive of the folder in the caller's directory
UserMbox == fs["user"].files[mbox_path]
UserZip == fs["user"].files[zip_path]

\* C19 as claimed: between calls, whenever the caller's directory holds both
\* the container and an archive written by one of the calls, the archive's
\* entry has the container's content.
C19_AlwaysConsistent ==
    (/\ pc = "done"
     /\ UserMbox.kind = "mbox"
     /\ UserZip.kind = "zip"
     /\ StaleEntry \notin Range(UserZip.msgs)) =>
        /\ UserZip.whole
        /\ UserZip.msgs = UserMbox.msgs

\* C19 as amended: after a call into the caller's directory that wrote the
\* archive completely, whatever happened afterwards and whatever earlier
\* calls left, both files are there and the archive's entry has the
\* container's content.
C19_ConsistentAfterCompress ==
    (/\ pc = "done"
     /\ use_directory = "user"
     /\ \E i \in 1..Len(trace) : trace[i].op = "zip_create" /\ trace[i].ok) =>
        /\ UserMbox.kind = "mbox"
        /\ UserZip.kind = "zip"
        /\ UserZip.whole
        /\ UserZip.arcname = mbox_path
        /\ UserZip.msgs = UserMbox.msgs

C19_Witness ==
    /\ pc = "done"
    /\ use_directory = "user"
    /\ run = 2
    /\ Did("zip_create")
    /\ exc = "RuntimeError"
    /\ fs0["user"].files[zip_path].kind = "zip"
    /\ fs0["user"].files[zip_path].msgs # UserZip.msgs
    /\ UserZip.msgs = UserMbox.msgs
    /\ UserZip.msgs # <<>>

\* C20: the submit button is disabled while _do_backup runs the backup, and
\* once the callback is over, whatever the outcome of the backup, it is
\* enabled again.
C20_SubmitReenabled ==
    /\ pc # "idle" => submit = "disabled"
    /\ pc = "idle" => submit = "enabled"
====
